---- MODULE Spec2Model ----
(***************************************************************************)
(* RemedyAtlas (src/app.py): the data pipeline of the dashboard script.    *)
(*   load_csv (memoised by st.cache_data) -> coerce_and_validate ->        *)
(*   filter-key scrub -> sidebar filters -> jitter_overlaps.               *)
(* A table (pandas DataFrame) is [cols |-> set of column names,            *)
(* index |-> the row labels, rows |-> sequence of rows]; a row is a        *)
(* function from the table's column names to cells.                        *)
(* A cell is a tagged value: a string (a sequence of one-character         *)
(* strings), a number, or NaN (pandas' missing value).                     *)
(* The position of the script is pc; one action is one step of the script. *)
(***************************************************************************)
EXTENDS Integers, Sequences, FiniteSets, TLC

\* ---------------------------------------------------------------- bounds
\* Largest number of rows of an input table.
MaxRows == 3

\* ----------------------------------------------------------------- cells
Str(s) == [t |-> "str", s |-> s, v |-> 0]
Num(n) == [t |-> "num", s |-> <<>>, v |-> n]
NaN == [t |-> "nan", s |-> <<>>, v |-> 0]

IsStr(c) == c.t = "str"
IsNum(c) == c.t = "num"

\* ------------------------------------------------------- python strings
UpperCase == <<"A","B","C","D","E","F","G","H","I","J","K","L","M",
               "N","O","P","Q","R","S","T","U","V","W","X","Y","Z">>
LowerCase == <<"a","b","c","d","e","f","g","h","i","j","k","l","m",
               "n","o","p","q","r","s","t","u","v","w","x","y","z">>

\* str.lower() on one character.
LowerChar(ch) ==
  IF \E i \in 1..26 : UpperCase[i] = ch
    THEN LowerCase[CHOOSE i \in 1..26 : UpperCase[i] = ch]
    ELSE ch

\* str.lower()
Lower(s) == [i \in 1..Len(s) |-> LowerChar(s[i])]

\* Characters for which str.isspace() is true.  NBSP (U+00A0) is white
\* space for Python; the zero-width space ZWSP (U+200B) is not.
WhiteSpace == {" ", "\t", "\n", "NBSP"}

RECURSIVE LStrip(_)
LStrip(s) == IF s # <<>> /\ Head(s) \in WhiteSpace THEN LStrip(Tail(s)) ELSE s

RECURSIVE RStrip(_)
RStrip(s) ==
  IF s # <<>> /\ s[Len(s)] \in WhiteSpace
    THEN RStrip(SubSeq(s, 1, Len(s) - 1))
    ELSE s

\* str.strip()
Strip(s) == RStrip(LStrip(s))

\* sub in s (Python's substring test on strings).
Contains(s, sub) ==
  \E i \in 0..(Len(s) - Len(sub)) : SubSeq(s, i + 1, i + Len(sub)) = sub

\* a + b on strings.
Concat(a, b) == a \o b

\* ------------------------------------------------------------ constants
\* REQUIRED (src/app.py:65-69)
REQUIRED == {"ailment", "plant_common", "plant_scientific", "preparation",
             "region", "country", "latitude", "longitude",
             "tradition_notes", "cautions", "evidence_level", "source_url"}

S_some_clinical == <<"s","o","m","e","/","c","l","i","n","i","c","a","l">>
S_mixed == <<"m","i","x","e","d">>
S_limited_low == <<"l","i","m","i","t","e","d","/","l","o","w">>
S_folk_tradition == <<"f","o","l","k","-","t","r","a","d","i","t","i","o","n">>
S_not_applicable == <<"n","o","t","-","a","p","p","l","i","c","a","b","l","e">>

\* The keys of EVIDENCE_EMOJI (src/app.py:71-77).
EvidenceKeys == {S_some_clinical, S_mixed, S_limited_low, S_folk_tradition,
                 S_not_applicable}

\* EVIDENCE_EMOJI[key]: the badge, named by its colour.
EVIDENCE_EMOJI(key) ==
  CASE key = S_some_clinical -> "green some/clinical"
    [] key = S_mixed -> "yellow mixed"
    [] key = S_limited_low -> "orange limited/low"
    [] key = S_folk_tradition -> "white folk/tradition"
    [] key = S_not_applicable -> "black n/a"

\* CAUTION_KEYWORDS (src/app.py:79-82)
CAUTION_KEYWORDS ==
  { <<"p","r","e","g","n","a","n">>,
    <<"a","n","t","i","c","o","a","g","u","l">>,
    <<"b","l","e","e","d","i","n","g">>,
    <<"a","s","p","i","r","i","n">>,
    <<"b","l","o","o","d"," ","p","r","e","s","s","u","r","e">>,
    <<"l","i","v","e","r">>,
    <<"r","e","n","a","l">>,
    <<"c","h","i","l","d","r","e","n">>,
    <<"p","e","d","i","a","t","r","i","c">>,
    <<"t","o","x","i","c">>,
    <<"a","v","o","i","d">> }

\* ------------------------------------------------------------- numbers
Digits == <<"0","1","2","3","4","5","6","7","8","9">>

IsDigit(ch) == \E i \in 1..10 : Digits[i] = ch

DigitVal(ch) == (CHOOSE i \in 1..10 : Digits[i] = ch) - 1

RECURSIVE DigitsValue(_, _)
DigitsValue(s, acc) ==
  IF s = <<>> THEN acc ELSE DigitsValue(Tail(s), 10 * acc + DigitVal(Head(s)))

AllDigits(s) == s # <<>> /\ \A i \in 1..Len(s) : IsDigit(s[i])

\* pd.to_numeric(..., errors="coerce") on one cell: a signed decimal integer
\* parses to its value; every other text, and a missing cell, becomes NaN.
ToNumeric(c) ==
  CASE c.t = "num" -> c
    [] c.t = "nan" -> NaN
    [] c.t = "str" ->
         IF AllDigits(c.s) THEN Num(DigitsValue(c.s, 0))
         ELSE IF c.s # <<>> /\ Head(c.s) = "-" /\ AllDigits(Tail(c.s))
           THEN Num(0 - DigitsValue(Tail(c.s), 0))
         ELSE IF c.s # <<>> /\ Head(c.s) = "+" /\ AllDigits(Tail(c.s))
           THEN Num(DigitsValue(Tail(c.s), 0))
         ELSE NaN

Abs(n) == IF n < 0 THEN 0 - n ELSE n

\* Series.between(lo, hi): inclusive on both ends, False for NaN.
Between(c, lo, hi) == IsNum(c) /\ lo <= c.v /\ c.v <= hi

\* ---------------------------------------------------------------- tables
\* The row r with column col set to val (the column is added when absent).
SetCol(r, col, val) ==
  [c \in (DOMAIN r) \cup {col} |-> IF c = col THEN val ELSE r[c]]

\* df.get(col) of one row: the cell, or the default when the column is absent.
GetCell(r, col, default) == IF col \in DOMAIN r THEN r[col] ELSE default

\* int(mask.sum()): the number of rows a mask (a sequence of booleans) selects.
Sum(mask) == Cardinality({i \in 1..Len(mask) : mask[i]})

RECURSIVE PositionsFrom(_, _)
PositionsFrom(mask, i) ==
  IF i > Len(mask) THEN <<>>
  ELSE (IF mask[i] THEN <<i>> ELSE <<>>) \o PositionsFrom(mask, i + 1)

\* df.loc[mask]: the rows the mask selects, in order, with their labels.
Loc(tbl, mask) ==
  LET pos == PositionsFrom(mask, 1)
  IN [cols |-> tbl.cols,
      index |-> [j \in 1..Len(pos) |-> tbl.index[pos[j]]],
      rows |-> [j \in 1..Len(pos) |-> tbl.rows[pos[j]]]]

\* The table with its rows replaced one for one, and the columns new added.
WithRows(tbl, rows, new) ==
  [cols |-> tbl.cols \cup new, index |-> tbl.index, rows |-> rows]

----------------------------------------------------------------------------
VARIABLES
  file,            \* data/remedies.csv on disk
  cache,           \* st.cache_data's entry for load_csv("data/remedies.csv")
  enc,             \* load_csv's loop variable, as an index into Encodings
  df_raw,          \* the table load_csv returned (src/app.py:172)
  df,              \* the table coerce_and_validate is working on / returned
  n_swapped,       \* coerce_and_validate's local n_swapped
  dropped,         \* coerce_and_validate's local dropped
  warnings,        \* the st.warning calls made so far, in order
  ailment,         \* the sidebar's "Symptom / ailment" selection
  region,          \* the sidebar's "Region" selection
  ev,              \* the sidebar's "Evidence level" selection
  country_search,  \* the sidebar's "Country contains" text
  fdf,             \* the filtered, then jittered, table
  exc,             \* the exception that escaped, "none" when none did
  pc,              \* the position of the script
  sb,              \* the client st.cache_resource keeps for _sb() (Community page)
  signed_in,       \* per browser session: the user who signed in from it
  uid,             \* per session: the page's uid of its last run
  already,         \* per session: what toggle_vote's user_has_voted returned
  target,          \* per session: the post whose vote button was clicked
  cpc,             \* per session: the position of the Community page
  votes            \* the backend's votes table: rows per (post_id, user_id)

loadVars == <<file, cache, enc>>
viewVars == <<ailment, region, ev, country_search, fdf>>

communityVars == <<sb, signed_in, uid, already, target, cpc, votes>>

vars == <<file, cache, enc, df_raw, df, n_swapped, dropped, warnings,
          ailment, region, ev, country_search, fdf, exc, pc,
          sb, signed_in, uid, already, target, cpc, votes>>

\* pd.DataFrame(columns=REQUIRED)
EmptyTable == [cols |-> REQUIRED, index |-> <<>>, rows |-> <<>>]

\* --------------------------------------------------- _normalize_headers
\* c.strip().lower().replace(" ", "_") and then the aliases, on the header
\* spellings the modelled sources use; a canonical header is left as it is.
NormHeader(h) ==
  CASE h = "Ailment" -> "ailment"
    [] h = " region " -> "region"
    [] h = "A ilment" -> "ailment"
    [] h = "Plant Name" -> "plant_common"
    [] h = "plant_name" -> "plant_common"
    [] OTHER -> h

\* _normalize_headers(df): the same rows under the normalized headers.
NormalizeHeaders(tbl) ==
  IF \A h \in tbl.cols : NormHeader(h) = h
    THEN tbl
    ELSE [cols |-> { NormHeader(h) : h \in tbl.cols },
          index |-> tbl.index,
          rows |-> [i \in 1..Len(tbl.rows) |->
                      [c \in { NormHeader(h) : h \in tbl.cols } |->
                         tbl.rows[i][CHOOSE h \in tbl.cols : NormHeader(h) = c]]]]

\* ------------------------------------ coerce_and_validate: its operators
\* latitude / longitude of a row after pd.to_numeric; an absent column
\* (df.get gives None) becomes a column of NaN.
CoerceRow(r) ==
  SetCol(SetCol(r, "latitude", ToNumeric(GetCell(r, "latitude", NaN))),
         "longitude", ToNumeric(GetCell(r, "longitude", NaN)))

LooksSwapped_LatOnly(r) ==
  IsNum(r["latitude"]) /\ Abs(r["latitude"].v) > 90

\* looks_swapped: abs(latitude) > 90 and abs(longitude) <= 90; a comparison
\* with NaN is False.
LooksSwapped(r) ==
  /\ IsNum(r["latitude"]) /\ Abs(r["latitude"].v) > 90
  /\ IsNum(r["longitude"]) /\ Abs(r["longitude"].v) <= 90

\* lat_old is copied before latitude is overwritten, so the two are exchanged.
SwapRow(r) ==
  [c \in DOMAIN r |->
     CASE c = "latitude" -> r["longitude"]
       [] c = "longitude" -> r["latitude"]
       [] OTHER -> r[c]]

\* The exchange of latitude and longitude on the rows looks_swapped selects.
SwapRows(tbl) ==
  WithRows(tbl,
           [i \in 1..Len(tbl.rows) |->
              IF LooksSwapped(tbl.rows[i]) THEN SwapRow(tbl.rows[i]) ELSE tbl.rows[i]],
           {})

\* looks_swapped as a boolean column.
SwappedMask(tbl) == [i \in 1..Len(tbl.rows) |-> LooksSwapped(tbl.rows[i])]

Valid_LatOnly(r) == Between(r["latitude"], -90, 90)

\* valid_mask of one row
Valid(r) ==
  Between(r["latitude"], -90, 90) /\ Between(r["longitude"], -180, 180)

\* valid_mask as a boolean column.
ValidMask(tbl) == [i \in 1..Len(tbl.rows) |-> Valid(tbl.rows[i])]

NDropped_BothOnly(tbl) ==
  Sum([i \in 1..Len(tbl.rows) |->
         /\ ~Between(tbl.rows[i]["latitude"], -90, 90)
         /\ ~Between(tbl.rows[i]["longitude"], -180, 180)])

\* int((~valid_mask).sum())
NDropped(tbl) == Sum([i \in 1..Len(tbl.rows) |-> ~ValidMask(tbl)[i]])

\* The table with latitude and longitude coerced to numbers.
Coerced(tbl) ==
  WithRows(NormalizeHeaders(tbl),
           [i \in 1..Len(tbl.rows) |-> CoerceRow(NormalizeHeaders(tbl).rows[i])],
           {"latitude", "longitude"})

\* ------------------------------------------- coerce_and_validate, step 1
Coerce_DropFirst ==
  /\ pc = "coerce"
  /\ df' = Loc(Coerced(df_raw), ValidMask(Coerced(df_raw)))
  /\ pc' = "swap"
  /\ UNCHANGED <<df_raw, n_swapped, dropped, warnings, exc>>
  /\ UNCHANGED <<loadVars, viewVars>>
  /\ UNCHANGED communityVars

Coerce ==
  /\ pc = "coerce"
  /\ df' = Coerced(df_raw)
  /\ pc' = "swap"
  /\ UNCHANGED <<df_raw, n_swapped, dropped, warnings, exc>>
  /\ UNCHANGED <<loadVars, viewVars>>
  /\ UNCHANGED communityVars

\* ------------------------------------------- coerce_and_validate, step 2
SwapRepair ==
  /\ pc = "swap"
  /\ LET looks_swapped == SwappedMask(df)
     IN /\ n_swapped' = Sum(looks_swapped)
        /\ df' = SwapRows(df)
        /\ warnings' = IF Sum(looks_swapped) # 0
                         THEN Append(warnings,
                                     [kind |-> "swapped", n |-> Sum(looks_swapped)])
                         ELSE warnings
  /\ pc' = "drop"
  /\ UNCHANGED <<df_raw, dropped, exc>>
  /\ UNCHANGED <<loadVars, viewVars>>
  /\ UNCHANGED communityVars

\* ------------------------------------------- coerce_and_validate, step 3
DropInvalid ==
  /\ pc = "drop"
  /\ dropped' = NDropped(df)
  /\ df' = Loc(df, ValidMask(df))
  /\ warnings' = IF NDropped(df) # 0
                   THEN Append(warnings, [kind |-> "dropped", n |-> NDropped(df)])
                   ELSE warnings
  /\ pc' = "badge"
  /\ UNCHANGED <<df_raw, n_swapped, exc>>
  /\ UNCHANGED <<loadVars, viewVars>>
  /\ UNCHANGED communityVars

\* ------------------------------------------- coerce_and_validate, step 4
FolkBadge == "white folk/tradition"

\* badge(ev) raises AttributeError when ev is neither a string nor falsy:
\* NaN (a missing cell) is truthy, so (ev or "") is NaN and NaN.strip fails.
BadgeRaises(c) == c.t = "nan" \/ (c.t = "num" /\ c.v # 0)

\* badge(ev), for an argument on which it does not raise.
badge(c) ==
  LET key == Lower(Strip(IF c.t = "str" THEN c.s ELSE <<>>))
  IN IF key \in EvidenceKeys THEN EVIDENCE_EMOJI(key) ELSE FolkBadge

\* df["evidence_badge"] = df.get("evidence_level", "").apply(badge): with the
\* column absent df.get gives the str "", which has no apply.
Badge ==
  /\ pc = "badge"
  /\ IF \/ "evidence_level" \notin df.cols
        \/ \E i \in 1..Len(df.rows) : BadgeRaises(df.rows[i]["evidence_level"])
       THEN /\ exc' = "AttributeError"
            /\ pc' = "raised"
            /\ df' = df
       ELSE /\ df' = WithRows(df,
                               [i \in 1..Len(df.rows) |->
                                  SetCol(df.rows[i], "evidence_badge",
                                         Str(<<badge(df.rows[i]["evidence_level"])>>))],
                               {"evidence_badge"})
            /\ pc' = "caution"
            /\ exc' = exc
  /\ UNCHANGED <<df_raw, n_swapped, dropped, warnings>>
  /\ UNCHANGED <<loadVars, viewVars>>
  /\ UNCHANGED communityVars

\* ------------------------------------------- coerce_and_validate, step 5
\* str(text) of a cell: the text itself, "nan" for a missing cell.
PyStr(c) ==
  CASE c.t = "str" -> c.s
    [] c.t = "nan" -> <<"n","a","n">>

has_caution_CaseSensitive(c) ==
  IF \E k \in CAUTION_KEYWORDS : Contains(PyStr(c), k)
    THEN "warn"
    ELSE "dash"

\* has_caution(text)
has_caution(c) ==
  IF \E k \in CAUTION_KEYWORDS : Contains(Lower(PyStr(c)), k)
    THEN "warn"
    ELSE "dash"

Caution ==
  /\ pc = "caution"
  /\ IF "cautions" \notin df.cols
       THEN /\ exc' = "AttributeError"
            /\ pc' = "raised"
            /\ df' = df
       ELSE /\ df' = WithRows(df,
                               [i \in 1..Len(df.rows) |->
                                  SetCol(df.rows[i], "caution_flag",
                                         Str(<<has_caution(df.rows[i]["cautions"])>>))],
                               {"caution_flag"})
            /\ pc' = "tooltip"
            /\ exc' = exc
  /\ UNCHANGED <<df_raw, n_swapped, dropped, warnings>>
  /\ UNCHANGED <<loadVars, viewVars>>
  /\ UNCHANGED communityVars

\* ------------------------------------------- coerce_and_validate, step 6
\* a + b on the cells of two object columns: NaN when either is missing.
StrAdd(a, b) == IF a.t = "nan" \/ b.t = "nan" THEN NaN ELSE Str(Concat(a.s, b.s))

TooltipOf(r) ==
  StrAdd(StrAdd(StrAdd(StrAdd(StrAdd(StrAdd(
    GetCell(r, "country", Str(<<>>)), Str(<<"<br/>">>)),
    GetCell(r, "plant_common", Str(<<>>))), Str(<<" <i>(">>)),
    GetCell(r, "plant_scientific", Str(<<>>))), Str(<<")</i><br/>">>)),
    GetCell(r, "preparation", Str(<<>>)))

\* The last step; the function returns df.
Tooltip ==
  /\ pc = "tooltip"
  /\ df' = WithRows(df,
                     [i \in 1..Len(df.rows) |->
                        SetCol(df.rows[i], "_tooltip", TooltipOf(df.rows[i]))],
                     {"_tooltip"})
  /\ pc' = "scrub"
  /\ UNCHANGED <<df_raw, n_swapped, dropped, warnings, exc>>
  /\ UNCHANGED <<loadVars, viewVars>>
  /\ UNCHANGED communityVars

----------------------------------------------------------------------------
\* ------------------------------------------------------------ input data
S_headache == <<"h","e","a","d","a","c","h","e">>
S_Lebanon == <<"L","e","b","a","n","o","n">>
S_Asia == <<"A","s","i","a">>
S_tea == <<"t","e","a">>

\* A well-formed row of the source; the specifications vary some of its cells.
DefaultRow ==
  [c \in REQUIRED |->
     CASE c = "ailment" -> Str(S_headache)
       [] c = "region" -> Str(S_Asia)
       [] c = "country" -> Str(S_Lebanon)
       [] c = "latitude" -> Str(<<"4","5">>)
       [] c = "longitude" -> Str(<<"1","2","0">>)
       [] c = "evidence_level" -> Str(S_mixed)
       [] OTHER -> Str(S_tea)]

\* All tables of at most n rows drawn from a set of rows, with a set of columns.
\* read_csv labels the rows 0, 1, 2, ... (a RangeIndex).
Tables(cols, RowSet, n) ==
  { [cols |-> cols, index |-> [i \in 1..Len(rs) |-> i - 1], rows |-> rs] :
      rs \in UNION { [1..k -> RowSet] : k \in 0..n } }

\* Coordinate cells as read from the file: a latitude on the boundary -90, a
\* value in both ranges, one that is a valid longitude only, one out of every
\* range, unparseable text, and an empty cell.
LatCells == { Str(<<"-","9","0">>), Str(<<"1","2","0">>), Str(<<"5","0","0">>),
              Str(<<"x">>) }
LonCells == { Str(<<"4","5">>), Str(<<"1","2","0">>), Str(<<"5","0","0">>), NaN }

CoordRows ==
  { [DefaultRow EXCEPT !["latitude"] = la, !["longitude"] = lo] :
      la \in LatCells, lo \in LonCells }

\* ALL_SYMPTOMS, ALL_REGIONS, ALL_EVIDENCE (src/app.py:84-86)
ALL_SYMPTOMS == <<"All symptoms">>
ALL_REGIONS == <<"All regions">>
ALL_EVIDENCE == <<"All evidence levels">>

\* The file and the cache before the first load.
NoCache == [hit |-> FALSE, value |-> EmptyTable]

\* The variables a specification does not start from: nothing loaded,
\* nothing computed, the widgets at their defaults (index=0, "").
InitLoadVars ==
  /\ file = [st |-> "missing", tbl |-> EmptyTable]
  /\ cache = NoCache
  /\ enc = 1

InitValVars ==
  /\ df = EmptyTable
  /\ n_swapped = 0
  /\ dropped = 0
  /\ warnings = <<>>

InitViewVars ==
  /\ ailment = ALL_SYMPTOMS
  /\ region = ALL_REGIONS
  /\ ev = ALL_EVIDENCE
  /\ country_search = <<>>
  /\ fdf = EmptyTable

\* The browser sessions, the accounts and the posts of the Community page.
Sessions == {"s1", "s2"}
Users == {"A", "B"}
Posts == {"p1"}

\* None, as a user.
NoUser == "none"

\* The Community page before anybody opened it: no client made yet, nobody
\* signed in, no vote.
InitCommunityVars ==
  /\ sb = [made |-> FALSE, user |-> NoUser]
  /\ signed_in = [s \in Sessions |-> NoUser]
  /\ uid = [s \in Sessions |-> ""]
  /\ already = [s \in Sessions |-> FALSE]
  /\ target = [s \in Sessions |-> "p1"]
  /\ cpc = [s \in Sessions |-> "idle"]
  /\ votes = [k \in Posts \X Users |-> 0]

\* A call of coerce_and_validate(df_raw) about to start, or the script at
\* position p with nothing else done.
InitRest(p) ==
  /\ InitCommunityVars
  /\ InitLoadVars
  /\ InitValVars
  /\ InitViewVars
  /\ exc = "none"
  /\ pc = p

\* ------------------------------------------------- coerce_and_validate(df)
InitValidate ==
  /\ df_raw \in Tables(REQUIRED, CoordRows, MaxRows)
  /\ InitRest("coerce")

NextValidate ==
  \/ Coerce
  \/ SwapRepair
  \/ DropInvalid
  \/ Badge
  \/ Caution
  \/ Tooltip

SpecValidate == InitValidate /\ [][NextValidate]_vars

\* ------------------------------ coerce_and_validate: the derived fields
\* Largest number of rows of an input table whose text cells vary.
MaxDeriveRows == 2

S_AVOID_in_PREGNANCY ==
  <<"A","V","O","I","D"," ","i","n"," ","P","R","E","G","N","A","N","C","Y">>
S_tea_with_honey ==
  <<"t","e","a"," ","w","i","t","h"," ","h","o","n","e","y">>

\* evidence_level cells: in the vocabulary, in other case with a leading
\* space, empty text, unrecognized text, and an empty (missing) cell.
EvidenceCells ==
  { Str(S_mixed), Str(<<" ","M","I","X","E","D">>), Str(S_not_applicable),
    Str(<<>>), Str(<<"u","n","k">>), NaN }

CautionCells == { Str(S_AVOID_in_PREGNANCY), Str(S_tea_with_honey), NaN }

\* Rows with valid coordinates and every evidence_level / cautions cell, and
\* one row with invalid coordinates and a missing evidence_level.
DeriveRows ==
  { [DefaultRow EXCEPT !["evidence_level"] = e, !["cautions"] = c] :
      e \in EvidenceCells, c \in CautionCells }
  \cup { [DefaultRow EXCEPT !["latitude"] = Str(<<"5","0","0">>),
                            !["evidence_level"] = NaN] }

\* The header rows of the source: all the expected columns, or all but one.
ColumnSets ==
  { REQUIRED } \cup
  { REQUIRED \ {c} :
      c \in {"evidence_level", "cautions", "country", "plant_common", "latitude"} }

\* A row without the columns the table lacks.
Restrict(r, cols) == [c \in cols |-> r[c]]

InitDerive ==
  /\ \E cols \in ColumnSets :
       df_raw \in Tables(cols, { Restrict(r, cols) : r \in DeriveRows }, MaxDeriveRows)
  /\ InitRest("coerce")

SpecDerive == InitDerive /\ [][NextValidate]_vars

\* ------------------------------- coerce_and_validate: the caution flag
\* Largest number of rows of an input table whose cautions cells vary.
MaxCautionRows == 3

S_toxic == <<"t","o","x","i","c">>

\* cautions cells: a warning in capitals, a harmless text, a warning in
\* another word form, and an empty (missing) cell.
CautionTexts ==
  { Str(S_AVOID_in_PREGNANCY), Str(S_tea_with_honey), Str(S_toxic), NaN }

InitCaution ==
  /\ df_raw \in Tables(REQUIRED,
                       { [DefaultRow EXCEPT !["cautions"] = c] : c \in CautionTexts },
                       MaxCautionRows)
  /\ InitRest("coerce")

SpecCaution == InitCaution /\ [][NextValidate]_vars

----------------------------------------------------------------------------
\* ------------------------------------------------------------- load_csv
\* Largest number of rows of the source file.
MaxFileRows == 2

\* The encodings load_csv tries, in order.
Encodings == <<"utf-8", "utf-8-sig">>

S_flu == <<"f","l","u">>

\* The source with some headers spelled as a spreadsheet would.
RawHeaderRow ==
  [h \in (REQUIRED \ {"ailment", "region", "plant_common"})
           \cup {"A ilment", " region ", "Plant Name"} |->
     DefaultRow[NormHeader(h)]]

\* The tables the source file may hold.
FileTables ==
  Tables(REQUIRED,
         { DefaultRow, [DefaultRow EXCEPT !["ailment"] = Str(S_flu)] },
         MaxFileRows)
  \cup { [cols |-> DOMAIN RawHeaderRow, index |-> <<0>>, rows |-> <<RawHeaderRow>>] }

\* The source file: absent, present but unreadable in every encoding
\* (undecodable bytes, no columns to parse), or holding a table.
FileStates ==
  { [st |-> "missing", tbl |-> EmptyTable], [st |-> "unreadable", tbl |-> EmptyTable] }
  \cup { [st |-> "ok", tbl |-> t] : t \in FileTables }

\* pd.read_csv(path, sep=None, engine="python", encoding=enc)
ReadCsv(f) ==
  CASE f.st = "ok" -> [r |-> "ok", tbl |-> f.tbl]
    [] f.st = "missing" -> [r |-> "FileNotFoundError", tbl |-> EmptyTable]
    [] f.st = "unreadable" -> [r |-> "Exception", tbl |-> EmptyTable]

\* st.cache_data finds an entry for the argument "data/remedies.csv": the
\* body of load_csv is not run and a copy of the stored table is returned.
LoadCsv_Hit ==
  /\ pc = "load"
  /\ cache.hit
  /\ df_raw' = cache.value
  /\ pc' = "coerce"
  /\ UNCHANGED <<loadVars, df, n_swapped, dropped, warnings, viewVars, exc>>
  /\ UNCHANGED communityVars

\* No entry: the body runs, starting with the first encoding.
LoadCsv_Miss ==
  /\ pc = "load"
  /\ ~cache.hit
  /\ enc' = 1
  /\ pc' = "read"
  /\ UNCHANGED <<file, cache, df_raw, df, n_swapped, dropped, warnings, viewVars, exc>>
  /\ UNCHANGED communityVars

\* load_csv returns t: st.cache_data stores it under the argument.
Return(t) ==
  /\ df_raw' = t
  /\ cache' = [hit |-> TRUE, value |-> t]
  /\ pc' = "coerce"
  /\ enc' = enc

\* One iteration of the loop over the encodings.
TryRead ==
  /\ pc = "read"
  /\ LET out == ReadCsv(file)
     IN CASE out.r = "ok" -> Return(NormalizeHeaders(out.tbl))
          [] out.r = "FileNotFoundError" -> Return(EmptyTable)
          [] out.r = "Exception" /\ enc < Len(Encodings) ->
               /\ enc' = enc + 1
               /\ UNCHANGED <<cache, df_raw, pc>>
          [] out.r = "Exception" /\ enc >= Len(Encodings) -> Return(EmptyTable)
  /\ UNCHANGED <<file, df, n_swapped, dropped, warnings, viewVars, exc>>
  /\ UNCHANGED communityVars

\* Somebody edits, creates, corrupts or deletes data/remedies.csv.
WriteFile ==
  /\ file' \in FileStates \ {file}
  /\ UNCHANGED <<cache, enc, df_raw, df, n_swapped, dropped, warnings, viewVars,
                 exc, pc>>
  /\ UNCHANGED communityVars

\* Streamlit runs the script again from the top (a refresh, a widget change).
Rerun ==
  /\ pc \notin {"load", "read"}
  /\ pc' = "load"
  /\ exc' = "none"
  /\ UNCHANGED <<loadVars, df_raw, df, n_swapped, dropped, warnings, viewVars>>
  /\ UNCHANGED communityVars

InitLoad ==
  /\ InitCommunityVars
  /\ file \in FileStates
  /\ cache = NoCache
  /\ enc = 1
  /\ df_raw = EmptyTable
  /\ InitValVars
  /\ InitViewVars
  /\ exc = "none"
  /\ pc = "load"

NextLoad ==
  \/ LoadCsv_Hit
  \/ LoadCsv_Miss
  \/ TryRead
  \/ WriteFile
  \/ Rerun

SpecLoad == InitLoad /\ [][NextLoad]_vars

----------------------------------------------------------------------------
\* ------------------------------------------- filter-key scrub (175-183)
\* .str.replace(NBSP, " ", regex=False), NBSP the no-break space U+00A0
RECURSIVE NbspToSpace(_)
NbspToSpace(s) ==
  IF s = <<>> THEN <<>>
  ELSE <<IF Head(s) = "NBSP" THEN " " ELSE Head(s)>> \o NbspToSpace(Tail(s))

\* .str.replace(ZWSP, "", regex=False), ZWSP the zero-width space U+200B
RECURSIVE DropZwsp(_)
DropZwsp(s) ==
  IF s = <<>> THEN <<>>
  ELSE (IF Head(s) = "ZWSP" THEN <<>> ELSE <<Head(s)>>) \o DropZwsp(Tail(s))

\* The columns the script scrubs.
ScrubCols == {"ailment", "region", "country"}

\* astype(str), the two replacements and strip, on one cell.
ScrubCell(c) == Str(Strip(DropZwsp(NbspToSpace(PyStr(c)))))

\* for col in ["ailment", "region", "country"]: df[col] = ...; df[col] of an
\* absent column raises KeyError.
Scrub ==
  /\ pc = "scrub"
  /\ IF ScrubCols \subseteq df.cols
       THEN /\ df' = WithRows(df,
                               [i \in 1..Len(df.rows) |->
                                  [c \in DOMAIN df.rows[i] |->
                                     IF c \in ScrubCols
                                       THEN ScrubCell(df.rows[i][c])
                                       ELSE df.rows[i][c]]],
                               {})
            /\ pc' = "empty"
            /\ exc' = exc
       ELSE /\ df' = df
            /\ pc' = "raised"
            /\ exc' = "KeyError"
  /\ UNCHANGED <<df_raw, n_swapped, dropped, warnings>>
  /\ UNCHANGED <<loadVars, viewVars>>
  /\ UNCHANGED communityVars

\* if df.empty: st.info(...); st.stop()
EmptyCheck ==
  /\ pc = "empty"
  /\ pc' = IF df.rows = <<>> THEN "stopped" ELSE "sidebar"
  /\ UNCHANGED <<df_raw, df, n_swapped, dropped, warnings, exc>>
  /\ UNCHANGED <<loadVars, viewVars>>
  /\ UNCHANGED communityVars

\* ----------------------------------------------------- sidebar (190-205)
S_leb == <<"l","e","b">>
S_LEB_padded == <<" ","L","E","B"," ">>
S_U_S_ == <<"U",".","S",".">>
S_paren == <<"(">>

\* What the user may type into "Country contains (optional)".
SearchTexts == { <<>>, S_leb, S_LEB_padded, S_U_S_, S_paren }

\* df[col].dropna().unique(): the distinct values of a scrubbed column (the
\* selectbox shows them sorted; the user picks any one of them).
Unique(col) == { df.rows[i][col].s : i \in 1..Len(df.rows) }

\* The user sets the four widgets.
Sidebar ==
  /\ pc = "sidebar"
  /\ ailment' \in {ALL_SYMPTOMS} \cup Unique("ailment")
  /\ region' \in {ALL_REGIONS} \cup Unique("region")
  /\ ev' \in {ALL_EVIDENCE} \cup EvidenceKeys
  /\ country_search' \in SearchTexts
  /\ pc' = "filter"
  /\ UNCHANGED <<df_raw, df, n_swapped, dropped, warnings, fdf, exc>>
  /\ UNCHANGED loadVars
  /\ UNCHANGED communityVars

\* ----------------------------------------------- apply filters (207-224)
\* re.compile(pat) raises re.error for a group that is opened and not
\* closed (of the characters the user types here, only "(" opens one).
ReError(pat) ==
  Cardinality({i \in 1..Len(pat) : pat[i] = "("})
    # Cardinality({i \in 1..Len(pat) : pat[i] = ")"})

\* The pattern, compiled with re.IGNORECASE, matches s from position i on:
\* "." stands for any character, every other character for itself in
\* either case.
MatchAt(pat, s, i) ==
  /\ i + Len(pat) <= Len(s)
  /\ \A k \in 1..Len(pat) :
       \/ pat[k] = "." /\ s[i + k] # "\n"
       \/ pat[k] # "." /\ LowerChar(pat[k]) = LowerChar(s[i + k])

\* Series.str.contains(pat, case=False, na=False) on one cell: regex=True is
\* the default, so pat is searched as a regular expression.
StrContains(c, pat) ==
  IF c.t = "str" THEN \E i \in 0..Len(c.s) : MatchAt(pat, c.s, i) ELSE FALSE

\* df["evidence_level"].str.lower().eq(ev.lower()) on one cell; a cell that
\* is no string gives NaN, which equals nothing.
EvidenceEq(c, level) == c.t = "str" /\ Lower(c.s) = Lower(level)

\* The .str accessor raises AttributeError on a column that holds no text.
NoTextColumn(col) ==
  df.rows # <<>> /\ \A i \in 1..Len(df.rows) : df.rows[i][col].t # "str"

\* mask, built by the four conditional "mask &=" statements.
FilterMask ==
  [i \in 1..Len(df.rows) |->
     /\ (ailment # ALL_SYMPTOMS) => (df.rows[i]["ailment"] = Str(ailment))
     /\ (region # ALL_REGIONS) => (df.rows[i]["region"] = Str(region))
     /\ (ev # ALL_EVIDENCE) => EvidenceEq(df.rows[i]["evidence_level"], ev)
     /\ (Strip(country_search) # <<>>) =>
          StrContains(df.rows[i]["country"], Strip(country_search))]

\* The filter statements up to fdf = df.loc[mask].copy().
ApplyFilters ==
  /\ pc = "filter"
  /\ IF ev # ALL_EVIDENCE /\ NoTextColumn("evidence_level")
       THEN /\ exc' = "AttributeError"
            /\ pc' = "raised"
            /\ fdf' = fdf
     ELSE IF Strip(country_search) # <<>> /\ ReError(Strip(country_search))
       THEN /\ exc' = "re.error"
            /\ pc' = "raised"
            /\ fdf' = fdf
     ELSE /\ fdf' = Loc(df, FilterMask)
          /\ pc' = "jitter"
          /\ exc' = exc
  /\ UNCHANGED <<df_raw, df, n_swapped, dropped, warnings>>
  /\ UNCHANGED <<loadVars, ailment, region, ev, country_search>>
  /\ UNCHANGED communityVars

\* ---------------------------------------------- jitter_overlaps (151-169)
\* Floating-point numbers are fixed-point integers here: degrees in units of
\* 1/1000, radians, sines and cosines in units of 1/10000, lon_scale in
\* units of 1/1000000.
Fix(m) == [t |-> "fix", s |-> <<>>, v |-> m]

\* np.pi, in units of 1/10000.
PiE4 == 31416

\* sin(y) for 0 <= y <= pi/2 by its Taylor polynomial of degree 9, in Horner
\* form; argument and value in units of 1/10000.
SinPoly(y) ==
  LET y2 == (y * y) \div 10000
      h4 == 10000 - y2 \div 72
      h3 == 10000 - ((y2 * h4) \div 10000) \div 42
      h2 == 10000 - ((y2 * h3) \div 10000) \div 20
      h1 == 10000 - ((y2 * h2) \div 10000) \div 6
  IN (y * h1) \div 10000

\* np.sin(x) for 0 <= x <= 2*pi, by reduction to the first quadrant.
SinE4(x) ==
  IF 2 * x <= PiE4 THEN SinPoly(x)
  ELSE IF x <= PiE4 THEN SinPoly(PiE4 - x)
  ELSE IF 2 * x <= 3 * PiE4 THEN 0 - SinPoly(x - PiE4)
  ELSE 0 - SinPoly(2 * PiE4 - x)

\* np.cos(x) for 0 <= x <= 2*pi: sin(x + pi/2).
CosE4(x) ==
  IF 2 * x + PiE4 <= 4 * PiE4
    THEN SinE4(x + PiE4 \div 2)
    ELSE SinE4(x + PiE4 \div 2 - 2 * PiE4)

AngleE4_Endpoint(i, n) == (i * 2 * PiE4) \div (n - 1)

\* np.linspace(0, 2*np.pi, n, endpoint=False)[i]
AngleE4(i, n) == (i * 2 * PiE4) \div n

\* deg_radius = 0.25, in units of 1/1000 degree.
deg_radius == 250

\* The floor 1e-6 of lon_scale, in units of 1/1000000.
LonScaleFloor == 1

\* lon_scale = max(np.cos(np.deg2rad(lat0)), 1e-6), lat0 in whole degrees.
LonScale(lat0) ==
  LET c == 100 * CosE4((Abs(lat0) * PiE4) \div 180)
  IN IF c > LonScaleFloor THEN c ELSE LonScaleFloor

\* lat0 + deg_radius * np.sin(angles), element i
LatJ(lat0, i, n) == 1000 * lat0 + (deg_radius * SinE4(AngleE4(i, n))) \div 10000

\* lon0 + (deg_radius * np.cos(angles)) / lon_scale, element i
LonJ(lat0, lon0, i, n) ==
  1000 * lon0 + (deg_radius * CosE4(AngleE4(i, n)) * 100) \div LonScale(lat0)

\* The characters of the modelled texts in the order of their code points.
CodePoints ==
  <<"\t", "\n", " ", "(", ")", "+", "-", ".", "/">> \o Digits \o UpperCase
    \o <<"_">> \o LowerCase \o <<"NBSP", "ZWSP">>

Ord(ch) == CHOOSE i \in 1..Len(CodePoints) : CodePoints[i] = ch

\* a < b on strings
RECURSIVE StrLess(_, _)
StrLess(a, b) ==
  IF b = <<>> THEN FALSE
  ELSE IF a = <<>> THEN TRUE
  ELSE IF Head(a) = Head(b) THEN StrLess(Tail(a), Tail(b))
  ELSE Ord(Head(a)) < Ord(Head(b))

\* The order groupby sorts the values of one key column in: texts in
\* string order, a missing value (kept by dropna=False) last.
CellLess(a, b) ==
  \/ a.t = "str" /\ b.t = "str" /\ StrLess(a.s, b.s)
  \/ a.t = "str" /\ b.t = "nan"

\* The key of a row under groupby(["country", "ailment"]).
GroupKey(r) == <<r["country"], r["ailment"]>>

KeyLess(k1, k2) ==
  \/ CellLess(k1[1], k2[1])
  \/ k1[1] = k2[1] /\ CellLess(k1[2], k2[2])

\* The keys of a set, sorted: the order in which groupby yields the groups.
RECURSIVE SortKeys(_)
SortKeys(K) ==
  IF K = {} THEN <<>>
  ELSE LET m == CHOOSE k \in K : \A o \in K \ {k} : KeyLess(k, o)
       IN <<m>> \o SortKeys(K \ {m})

\* The positions of the rows of one group, in table order.
GroupPositions(tbl, key) ==
  PositionsFrom([i \in 1..Len(tbl.rows) |-> GroupKey(tbl.rows[i]) = key], 1)

JitterGroup_WriteBack(tbl, key) ==
  LET pos == GroupPositions(tbl, key)
      n == Len(pos)
      lat0 == tbl.rows[pos[1]]["latitude"].v
      lon0 == tbl.rows[pos[1]]["longitude"].v
  IN [j \in 1..n |->
        LET r == tbl.rows[pos[j]]
        IN IF n = 1
             THEN SetCol(SetCol(r, "lat_j", r["latitude"]), "lon_j", r["longitude"])
             ELSE SetCol(SetCol(SetCol(SetCol(r,
                    "latitude", Fix(LatJ(lat0, j - 1, n))),
                    "longitude", Fix(LonJ(lat0, lon0, j - 1, n))),
                    "lat_j", Fix(LatJ(lat0, j - 1, n))),
                    "lon_j", Fix(LonJ(lat0, lon0, j - 1, n)))]

\* The body of the loop for one group: g with lat_j and lon_j.
JitterGroup(tbl, key) ==
  LET pos == GroupPositions(tbl, key)
      n == Len(pos)
      lat0 == tbl.rows[pos[1]]["latitude"].v
      lon0 == tbl.rows[pos[1]]["longitude"].v
  IN [j \in 1..n |->
        LET r == tbl.rows[pos[j]]
        IN IF n = 1
             THEN SetCol(SetCol(r, "lat_j", r["latitude"]), "lon_j", r["longitude"])
             ELSE SetCol(SetCol(r, "lat_j", Fix(LatJ(lat0, j - 1, n))),
                         "lon_j", Fix(LonJ(lat0, lon0, j - 1, n)))]

RECURSIVE ConcatGroups(_, _)
ConcatGroups(tbl, keys) ==
  IF keys = <<>> THEN <<>>
  ELSE JitterGroup(tbl, Head(keys)) \o ConcatGroups(tbl, Tail(keys))

\* jitter_overlaps(df): the empty table as it is; otherwise the groups one
\* after the other, relabelled 0, 1, 2, ... by pd.concat(ignore_index=True).
jitter_overlaps(tbl) ==
  IF tbl.rows = <<>> THEN tbl
  ELSE LET keys == SortKeys({ GroupKey(tbl.rows[i]) : i \in 1..Len(tbl.rows) })
           rows == ConcatGroups(tbl, keys)
       IN [cols |-> tbl.cols \cup {"lat_j", "lon_j"},
           index |-> [j \in 1..Len(rows) |-> j - 1],
           rows |-> rows]

\* fdf = jitter_overlaps(fdf)
Jitter ==
  /\ pc = "jitter"
  /\ fdf' = jitter_overlaps(fdf)
  /\ pc' = "view"
  /\ UNCHANGED <<df_raw, df, n_swapped, dropped, warnings, exc>>
  /\ UNCHANGED <<loadVars, ailment, region, ev, country_search>>
  /\ UNCHANGED communityVars

\* ------------------------------------- the script from validation on
\* Largest number of rows of the table the filters are applied to.
MaxFilterRows == 2

S_Russia == <<"R","u","s","s","i","a">>
S_USA == <<"U","S","A">>
S_MIXED == <<"M","I","X","E","D">>

\* ailment cells: plain, and pasted with a no-break space in front and a
\* zero-width space behind.
AilmentCells ==
  { Str(S_headache), Str(<<"NBSP">> \o S_headache \o <<"ZWSP">>), Str(S_flu) }

FilterRows ==
  { [DefaultRow EXCEPT !["ailment"] = a, !["country"] = Str(c),
                       !["evidence_level"] = Str(e)] :
      a \in AilmentCells, c \in {S_Lebanon, S_Russia, S_USA},
      e \in {S_mixed, S_MIXED} }

InitFilter ==
  /\ df_raw \in Tables(REQUIRED, FilterRows, MaxFilterRows)
  /\ InitRest("coerce")

NextFilter ==
  \/ NextValidate
  \/ Scrub
  \/ EmptyCheck
  \/ Sidebar
  \/ ApplyFilters
  \/ Jitter

SpecFilter == InitFilter /\ [][NextFilter]_vars

\* ------------------------------------------------- jitter_overlaps(fdf)
\* Largest number of rows of the table passed to jitter_overlaps.
MaxJitterRows == 5

\* A row of the cleaned table: numeric coordinates and the derived fields.
CleanRow(r, lat, lon) ==
  LET a == [r EXCEPT !["latitude"] = Num(lat), !["longitude"] = Num(lon)]
      b == SetCol(a, "evidence_badge", Str(<<badge(a["evidence_level"])>>))
      c == SetCol(b, "caution_flag", Str(<<has_caution(b["cautions"])>>))
  IN SetCol(c, "_tooltip", TooltipOf(c))

\* Rows that share country and ailment at one place or at two (one of them
\* at a southern latitude), a row that differs in ailment only, and a row of
\* another country at the pole.
JitterRows ==
  { CleanRow(DefaultRow, 10, 20),
    CleanRow(DefaultRow, -60, -170),
    CleanRow([DefaultRow EXCEPT !["ailment"] = Str(S_flu)], 10, 20),
    CleanRow([DefaultRow EXCEPT !["country"] = Str(S_Russia)], 90, 20) }

\* The call jitter_overlaps(fdf) about to start on a filtered table.
InitJitter ==
  /\ fdf \in Tables(DOMAIN CleanRow(DefaultRow, 0, 0), JitterRows, MaxJitterRows)
  /\ df = fdf
  /\ df_raw = EmptyTable
  /\ n_swapped = 0
  /\ dropped = 0
  /\ warnings = <<>>
  /\ ailment = ALL_SYMPTOMS
  /\ region = ALL_REGIONS
  /\ ev = ALL_EVIDENCE
  /\ country_search = <<>>
  /\ InitLoadVars
  /\ InitCommunityVars
  /\ exc = "none"
  /\ pc = "jitter"

SpecJitter == InitJitter /\ [][Jitter]_vars

\* ---------------------- the script on sources with untidy filter keys
\* Largest number of rows of a source with untidy filter keys.
MaxKeyRows == 3

\* A tidy row; the same row as pasted from elsewhere, with a no-break
\* space, a zero-width space and blanks around its keys; a row with other
\* keys; and a row whose ailment and region cells are empty.
KeyRows ==
  { DefaultRow,
    [DefaultRow EXCEPT !["ailment"] = Str(<<"NBSP">> \o S_headache \o <<"ZWSP">>),
                       !["region"] = Str(S_Asia \o <<"NBSP">>),
                       !["country"] = Str(<<" ">> \o S_Lebanon)],
    [DefaultRow EXCEPT !["ailment"] = Str(S_flu), !["country"] = Str(S_Russia)],
    [DefaultRow EXCEPT !["ailment"] = NaN, !["region"] = NaN] }

InitKeys ==
  /\ df_raw \in Tables(REQUIRED, KeyRows, MaxKeyRows)
  /\ InitRest("coerce")

SpecKeys == InitKeys /\ [][NextFilter]_vars

----------------------------------------------------------------------------
\* ------------------------------------ pages/02_Community.py: the client
\* Largest number of vote rows the backend is let to hold for one
\* (post_id, user_id).
MaxVoteRows == 2

\* sb = _sb(): st.cache_resource keeps one client for the whole server
\* process; the first run of the page by any session makes it, every later
\* run by any session gets the same object.
TheClient == [made |-> TRUE, user |-> sb.user]

\* _get_user(): the user of the auth session the client holds, or None.
GetUser == sb.user

\* _is_logged_in()
IsLoggedIn == GetUser # NoUser

\* _user_id() or ""
UserIdOrEmpty == IF GetUser # NoUser THEN GetUser ELSE ""

\* The variables of the dashboard script, which the Community page leaves alone.
appVars == <<file, cache, enc, df_raw, df, n_swapped, dropped, warnings,
             ailment, region, ev, country_search, fdf, exc, pc>>

\* Session s presses "Log in" with the credentials of account u: the form
\* is rendered only while _is_logged_in() is false;
\* sb.auth.sign_in_with_password stores the auth session in the client.
LogIn(s, u) ==
  /\ cpc[s] = "idle"
  /\ ~IsLoggedIn
  /\ sb' = [made |-> TRUE, user |-> u]
  /\ signed_in' = [signed_in EXCEPT ![s] = u]
  /\ cpc' = [cpc EXCEPT ![s] = "rerun"]
  /\ UNCHANGED <<uid, already, target, votes, appVars>>

\* Session s presses "Log out": the button is rendered while
\* _is_logged_in() is true; sb.auth.sign_out() drops the client's session.
LogOut(s) ==
  /\ cpc[s] = "idle"
  /\ IsLoggedIn
  /\ sb' = [made |-> TRUE, user |-> NoUser]
  /\ signed_in' = [signed_in EXCEPT ![s] = NoUser]
  /\ cpc' = [cpc EXCEPT ![s] = "rerun"]
  /\ UNCHANGED <<uid, already, target, votes, appVars>>

\* A run of the page for session s with no button pressed (the first visit,
\* st.rerun(), a widget change): uid = _user_id() or "".
RunPage(s) ==
  /\ cpc[s] \in {"idle", "rerun", "rerun_error"}
  /\ sb' = TheClient
  /\ uid' = [uid EXCEPT ![s] = UserIdOrEmpty]
  /\ cpc' = [cpc EXCEPT ![s] = "idle"]
  /\ UNCHANGED <<signed_in, already, target, votes, appVars>>

\* ------------------------------------ pages/02_Community.py: the votes
\* user_has_voted(post_id, user_id): False for an empty user_id, else
\* whether the select finds a row.
user_has_voted(post_id, user_id) ==
  user_id # "" /\ votes[<<post_id, user_id>>] > 0

\* Session s clicks the vote button of post p. The page runs again from the
\* top (uid = _user_id() or ""); the handler warns when nobody is logged
\* in, and otherwise enters toggle_vote(pid, uid), whose first statement
\* asks the backend whether the vote exists.
ClickVote(s, p) ==
  /\ cpc[s] = "idle"
  /\ sb' = TheClient
  /\ uid' = [uid EXCEPT ![s] = UserIdOrEmpty]
  /\ IF IsLoggedIn
       THEN /\ target' = [target EXCEPT ![s] = p]
            /\ already' = [already EXCEPT ![s] = user_has_voted(p, UserIdOrEmpty)]
            /\ cpc' = [cpc EXCEPT ![s] = "toggle"]
       ELSE UNCHANGED <<target, already, cpc>>
  /\ UNCHANGED <<signed_in, votes, appVars>>

\* The second statement of toggle_vote succeeds: the delete removes every
\* row of the pair, or the insert adds one; st.rerun() follows.
ToggleVote(s) ==
  /\ cpc[s] = "toggle"
  /\ IF already[s]
       THEN votes' = [votes EXCEPT ![<<target[s], uid[s]>>] = 0]
       ELSE /\ votes[<<target[s], uid[s]>>] < MaxVoteRows
            /\ votes' = [votes EXCEPT ![<<target[s], uid[s]>>] = @ + 1]
  /\ cpc' = [cpc EXCEPT ![s] = "rerun"]
  /\ UNCHANGED <<sb, signed_in, uid, already, target, appVars>>

\* The backend call raises (the network, a policy of the backend): the
\* except branch shows st.error and the table is as it was.
ToggleFails(s) ==
  /\ cpc[s] = "toggle"
  /\ cpc' = [cpc EXCEPT ![s] = "rerun_error"]
  /\ UNCHANGED <<sb, signed_in, uid, already, target, votes, appVars>>

InitCommunity ==
  /\ InitCommunityVars
  /\ InitLoadVars
  /\ InitValVars
  /\ InitViewVars
  /\ df_raw = EmptyTable
  /\ exc = "none"
  /\ pc = "load"

NextCommunity ==
  \E s \in Sessions :
    \/ \E u \in Users : LogIn(s, u)
    \/ LogOut(s)
    \/ RunPage(s)
    \/ \E p \in Posts : ClickVote(s, p)
    \/ ToggleVote(s)
    \/ ToggleFails(s)

SpecCommunity == InitCommunity /\ [][NextCommunity]_vars

----------------------------------------------------------------------------
\* ---------------------------------------------- properties of validation
\* coerce_and_validate has returned df.
Returned == pc = "scrub"

\* A number within [lo, hi].
InRange(c, lo, hi) == c.t = "num" /\ lo <= c.v /\ c.v <= hi

\* A cell of the source that holds no number: empty, or text with a
\* character that is neither a digit nor a sign.
MissingOrText(c) ==
  \/ c.t = "nan"
  \/ c.t = "str" /\ (c.s = <<>> \/ \E i \in 1..Len(c.s) :
                                      ~IsDigit(c.s[i]) /\ c.s[i] \notin {"-", "+"})

\* The rows of the input with their coordinates as numbers.
InputRows == Coerced(df_raw).rows

\* Transposed: abs(latitude) > 90 and abs(longitude) <= 90.
Transposed(r) ==
  /\ r["latitude"].t = "num" /\ r["longitude"].t = "num"
  /\ (r["latitude"].v > 90 \/ r["latitude"].v < -90)
  /\ r["longitude"].v <= 90 /\ r["longitude"].v >= -90

\* Transposed, and valid once exchanged.
Recoverable(r) == Transposed(r) /\ InRange(r["latitude"], -180, 180)

\* Both coordinates outside their valid range.
BothOut(r) ==
  ~InRange(r["latitude"], -90, 90) /\ ~InRange(r["longitude"], -180, 180)

InputIsValid(r) ==
  InRange(r["latitude"], -90, 90) /\ InRange(r["longitude"], -180, 180)

\* The labels of the rows of the output.
Retained == {df.index[j] : j \in 1..Len(df.index)}

\* C1: every row coerce_and_validate retains has -90 <= latitude <= 90 and
\* -180 <= longitude <= 180, and no retained row comes from an input row
\* whose latitude or longitude was missing or unparseable.
C1_RetainedInRange ==
  Returned =>
    \A j \in 1..Len(df.rows) :
      /\ InRange(df.rows[j]["latitude"], -90, 90)
      /\ InRange(df.rows[j]["longitude"], -180, 180)
      /\ ~MissingOrText(df_raw.rows[df.index[j] + 1]["latitude"])
      /\ ~MissingOrText(df_raw.rows[df.index[j] + 1]["longitude"])

\* A finished run that kept a row and dropped one with an unparseable
\* latitude, one with a missing longitude and one out of range.
C1_Witness ==
  /\ pc = "scrub"
  /\ Len(df.rows) = 1
  /\ \E i \in 1..Len(df_raw.rows) : df_raw.rows[i]["latitude"] = Str(<<"x">>)
  /\ \E i \in 1..Len(df_raw.rows) : df_raw.rows[i]["longitude"] = NaN
  /\ \E i \in 1..Len(df_raw.rows) : InputRows[i]["longitude"] = Num(500)

\* C2: the swap repair exchanges latitude and longitude of exactly the rows
\* with abs(latitude) > 90 and abs(longitude) <= 90, leaves every other row
\* as it was, reports the number of rows exchanged, and applied again to its
\* own result exchanges nothing and counts zero rows.
C2_SwapExactAndIdempotent ==
  pc = "drop" =>
    LET inp == InputRows
    IN /\ Len(df.rows) = Len(inp)
       /\ \A i \in 1..Len(df.rows) :
            IF Transposed(inp[i])
              THEN df.rows[i] = [inp[i] EXCEPT
                                   !["latitude"] = inp[i]["longitude"],
                                   !["longitude"] = inp[i]["latitude"]]
              ELSE df.rows[i] = inp[i]
       /\ n_swapped = Cardinality({i \in 1..Len(inp) : Transposed(inp[i])})
       /\ SwapRows(df) = df
       /\ Sum(SwappedMask(df)) = 0

\* The repair has turned (120, 45) into (45, 120) and has left a row it
\* does not select, (500, 120), alone.
C2_Witness ==
  /\ pc = "drop"
  /\ \E i \in 1..Len(df.rows) :
       /\ InputRows[i]["latitude"] = Num(120) /\ InputRows[i]["longitude"] = Num(45)
       /\ df.rows[i]["latitude"] = Num(45) /\ df.rows[i]["longitude"] = Num(120)
  /\ \E i \in 1..Len(df.rows) :
       /\ InputRows[i]["latitude"] = Num(500) /\ InputRows[i]["longitude"] = Num(120)
       /\ df.rows[i] = InputRows[i]

\* The 3-row scenario: one valid row, one recoverable transposed row and one
\* row with both coordinates out of range, in any order.
Scenario3 ==
  LET inp == InputRows
  IN /\ Len(inp) = 3
     /\ \E i, j, k \in 1..3 :
          /\ i # j /\ j # k /\ i # k
          /\ InputIsValid(inp[i])
          /\ Recoverable(inp[j])
          /\ BothOut(inp[k])

\* C3: the repair runs before the drop: a transposed row that is valid once
\* exchanged is in the output, exchanged, and the repair is reported before
\* any drop; in the 3-row scenario the output has 2 rows, the reported
\* repair count is 1 and the reported drop count is 1.
C3_RepairBeforeDrop ==
  Returned =>
    LET inp == InputRows
    IN /\ \A i \in 1..Len(inp) :
            Recoverable(inp[i]) =>
              \E j \in 1..Len(df.rows) :
                /\ df.index[j] = i - 1
                /\ df.rows[j]["latitude"] = inp[i]["longitude"]
                /\ df.rows[j]["longitude"] = inp[i]["latitude"]
       /\ (\E i \in 1..Len(inp) : Recoverable(inp[i])) =>
            (warnings # <<>> /\ warnings[1].kind = "swapped")
       /\ Scenario3 =>
            /\ Len(df.rows) = 2
            /\ n_swapped = 1
            /\ dropped = 1
            /\ warnings = << [kind |-> "swapped", n |-> 1],
                             [kind |-> "dropped", n |-> 1] >>

\* The scenario of the claim has run to the end: (-90, 45), (120, 45) and
\* (500, 500) in, two rows out.
C3_Witness ==
  /\ pc = "scrub"
  /\ Scenario3
  /\ InputRows[2]["latitude"] = Num(120) /\ InputRows[2]["longitude"] = Num(45)
  /\ InputRows[3]["latitude"] = Num(500) /\ InputRows[3]["longitude"] = Num(500)
  /\ Len(df.rows) = 2

\* C4, as the claim states it: every row with both coordinates out of range
\* is dropped, and the drop counter equals the number of such rows.
C4_Original ==
  Returned =>
    LET inp == InputRows
    IN /\ \A i \in 1..Len(inp) : BothOut(inp[i]) => (i - 1) \notin Retained
       /\ dropped = Cardinality({i \in 1..Len(inp) : BothOut(inp[i])})

\* The latitude of an input row once the repair has run.
FinalLat(r) == IF Transposed(r) THEN r["longitude"] ELSE r["latitude"]

\* The longitude of an input row once the repair has run.
FinalLon(r) == IF Transposed(r) THEN r["latitude"] ELSE r["longitude"]

\* C4, amended: every row with both coordinates out of range is dropped, and
\* the drop counter equals the input row count minus the output row count,
\* which is the number of rows whose latitude or longitude, after the
\* repair, is missing or out of range (at least the number of rows with both
\* out of range).
C4_DropCount ==
  Returned =>
    LET inp == InputRows
    IN /\ \A i \in 1..Len(inp) : BothOut(inp[i]) => (i - 1) \notin Retained
       /\ dropped = Len(inp) - Len(df.rows)
       /\ dropped = Cardinality({i \in 1..Len(inp) :
                       \/ ~InRange(FinalLat(inp[i]), -90, 90)
                       \/ ~InRange(FinalLon(inp[i]), -180, 180)})
       /\ dropped >= Cardinality({i \in 1..Len(inp) : BothOut(inp[i])})

\* A finished run that dropped (500, 500) and also a row with only its
\* longitude out of range.
C4_Witness ==
  /\ pc = "scrub"
  /\ dropped = 2
  /\ \E i \in 1..Len(df_raw.rows) :
       InputRows[i]["latitude"] = Num(500) /\ InputRows[i]["longitude"] = Num(500)
  /\ \E i \in 1..Len(df_raw.rows) :
       InputRows[i]["latitude"] = Num(-90) /\ InputRows[i]["longitude"] = Num(500)

\* The derived columns of the cleaned table.
DerivedFields == {"evidence_badge", "caution_flag", "_tooltip"}

\* C5: coerce_and_validate never raises: with an expected column absent, or
\* a cell of it missing, it still returns a table that has the derived
\* fields evidence_badge, caution_flag and _tooltip.
C5_NeverRaises ==
  /\ pc # "raised"
  /\ exc = "none"
  /\ Returned => DerivedFields \subseteq df.cols

\* The 5 fixed badges.
Badges == { EVIDENCE_EMOJI(k) : k \in EvidenceKeys }

\* The badge step has run on a table that has the evidence_level column.
BadgeStepDone ==
  "evidence_level" \in df.cols /\ pc \in {"caution", "tooltip", "scrub", "raised"}

\* C6: the badge mapping is total: once the badge step has run, every
\* retained row, whatever its evidence_level (empty, missing, unrecognized),
\* carries one of the 5 badges: the badge of its evidence_level when that is
\* in the vocabulary up to case, the folk-tradition badge when it is not.
C6_BadgeTotal ==
  BadgeStepDone =>
    /\ "evidence_badge" \in df.cols
    /\ \A j \in 1..Len(df.rows) :
         LET lvl == df.rows[j]["evidence_level"]
             b == df.rows[j]["evidence_badge"]
         IN /\ \E k \in Badges : b = Str(<<k>>)
            /\ (lvl.t = "str" /\ Lower(lvl.s) \in EvidenceKeys) =>
                 b = Str(<<EVIDENCE_EMOJI(Lower(lvl.s))>>)
            /\ (lvl.t # "str" \/ Lower(Strip(lvl.s)) \notin EvidenceKeys) =>
                 b = Str(<<FolkBadge>>)

\* What reading the source file f gives: its table under normalized
\* headers, or the empty table with the canonical columns.
FreshLoad(f) == IF f.st = "ok" THEN NormalizeHeaders(f.tbl) ELSE EmptyTable

\* A step in which load_csv returns.
LoadReturns == pc \in {"load", "read"} /\ pc' = "coerce"

\* C8: every load_csv call returns the content of the source as it is at
\* that moment: the same table while the source is unmodified, the new
\* content once it has been modified since an earlier load.
C8_LoadReturnsCurrentSource ==
  [][LoadReturns => df_raw' = FreshLoad(file)]_vars

\* C9: load_csv never raises, and a call made while the source does not
\* exist, or cannot be read in any encoding, returns the empty table whose
\* columns are exactly the canonical required columns.
C9_MissingSourceGivesEmpty ==
  [][/\ exc' = "none"
     /\ (LoadReturns /\ file.st # "ok") =>
          (df_raw'.rows = <<>> /\ df_raw'.cols = REQUIRED)]_vars

\* The text the country filter searches for.
SearchText == Strip(country_search)

\* The four predicates of the filter on one row of the cleaned table; one
\* left at its "All" / empty setting holds of every row.
MatchesAilment(r) == ailment = ALL_SYMPTOMS \/ r["ailment"] = Str(ailment)

MatchesRegion(r) == region = ALL_REGIONS \/ r["region"] = Str(region)

MatchesEvidence(r) ==
  \/ ev = ALL_EVIDENCE
  \/ r["evidence_level"].t = "str" /\ Lower(r["evidence_level"].s) = Lower(ev)

MatchesCountry(r) ==
  \/ SearchText = <<>>
  \/ r["country"].t = "str" /\ Contains(Lower(r["country"].s), Lower(SearchText))

\* C7: the filter step does not fail, and the filtered table holds exactly
\* the rows of the cleaned table, in order, that match each of the four
\* predicates: ailment exactly, region exactly, evidence_level exactly up to
\* case, country containing the search text up to case.
C7_FilterIsIntersection ==
  /\ (pc = "raised" => exc \notin {"re.error"})
  /\ (pc = "jitter" =>
        fdf = Loc(df, [i \in 1..Len(df.rows) |->
                         /\ MatchesAilment(df.rows[i])
                         /\ MatchesRegion(df.rows[i])
                         /\ MatchesEvidence(df.rows[i])
                         /\ MatchesCountry(df.rows[i])]))

\* The rows of a table that are in the group of its row i.
GroupOf(tbl, i) ==
  { j \in 1..Len(tbl.rows) : GroupKey(tbl.rows[j]) = GroupKey(tbl.rows[i]) }

\* The slot of row i: the number of rows of its group before it.
SlotOf(tbl, i) == Cardinality({ j \in GroupOf(tbl, i) : j < i })

\* The first row of the group of row i.
FirstOf(tbl, i) ==
  tbl.rows[CHOOSE j \in GroupOf(tbl, i) : \A k \in GroupOf(tbl, i) : j <= k]

\* Where row i of the input is in the output: after the groups with a
\* smaller key, at its slot.
PlaceOf(tbl, i) ==
  1 + SlotOf(tbl, i)
    + Cardinality({ j \in 1..Len(tbl.rows) :
                      KeyLess(GroupKey(tbl.rows[j]), GroupKey(tbl.rows[i])) })

\* The jittered position of a row of the output.
PositionOf(r) == <<r["lat_j"], r["lon_j"]>>

\* C10: jitter_overlaps keeps every row and its fields; a row alone in its
\* (country, ailment) group gets lat_j = latitude and lon_j = longitude; in
\* a group of n > 1 rows the row with i rows of the group before it gets
\* lat_j = lat0 + R*sin(2*pi*i/n) and
\* lon_j = lon0 + R*cos(2*pi*i/n) / max(cos(radians(lat0)), 1e-6), with
\* (lat0, lon0) the coordinates of the group's first row; the rows of a
\* group get pairwise distinct positions; and the positions are determined
\* by the table alone.
C10_JitterRing ==
  [][(pc = "jitter" /\ pc' = "view") =>
       /\ Len(fdf'.rows) = Len(fdf.rows)
       /\ \A i \in 1..Len(fdf.rows) :
            LET r == fdf.rows[i]
                n == Cardinality(GroupOf(fdf, i))
                theta == (SlotOf(fdf, i) * 2 * PiE4) \div n
                lat0 == FirstOf(fdf, i)["latitude"].v
                lon0 == FirstOf(fdf, i)["longitude"].v
                lat_j == IF n = 1 THEN r["latitude"]
                         ELSE Fix(1000 * lat0 + (deg_radius * SinE4(theta)) \div 10000)
                lon_j == IF n = 1 THEN r["longitude"]
                         ELSE Fix(1000 * lon0
                                    + (deg_radius * CosE4(theta) * 100)
                                        \div LonScale(lat0))
            IN fdf'.rows[PlaceOf(fdf, i)]
                 = SetCol(SetCol(r, "lat_j", lat_j), "lon_j", lon_j)
       /\ \A p, q \in 1..Len(fdf'.rows) :
            (p # q /\ GroupKey(fdf'.rows[p]) = GroupKey(fdf'.rows[q])) =>
              PositionOf(fdf'.rows[p]) # PositionOf(fdf'.rows[q])]_vars

\* jitter_overlaps has run on four rows for (Lebanon, headache), all at
\* (10, 20), and one row for (Lebanon, flu) at (10, 20): the four have four
\* positions, the single row is where it was.
C10_Witness ==
  /\ pc = "view"
  /\ Len(fdf.rows) = 5
  /\ LET four == { i \in 1..5 :
                     /\ fdf.rows[i]["ailment"] = Str(S_headache)
                     /\ fdf.rows[i]["country"] = Str(S_Lebanon)
                     /\ fdf.rows[i]["latitude"] = Num(10)
                     /\ fdf.rows[i]["longitude"] = Num(20) }
     IN /\ Cardinality(four) = 4
        /\ Cardinality({ PositionOf(fdf.rows[i]) : i \in four }) = 4
  /\ \E i \in 1..5 :
       /\ fdf.rows[i]["ailment"] = Str(S_flu)
       /\ fdf.rows[i]["lat_j"] = Num(10)
       /\ fdf.rows[i]["lon_j"] = Num(20)

\* The rows of a table, without the columns lat_j and lon_j, as a bag: how
\* many times each row occurs.
SourceRows(tbl) ==
  LET src == [j \in 1..Len(tbl.rows) |->
                [c \in (DOMAIN tbl.rows[j]) \ {"lat_j", "lon_j"} |-> tbl.rows[j][c]]]
  IN [r \in { src[j] : j \in 1..Len(src) } |->
        Cardinality({ j \in 1..Len(src) : src[j] = r })]

\* The position in df of the row labelled l.
PositionOfLabel(l) == CHOOSE i \in 1..Len(df.index) : df.index[i] = l

\* C11: the filter step and the jitter step leave the cleaned table df as it
\* is; the filtered table holds the rows of df the mask selects, each once,
\* in order and as they are in df; jitter_overlaps returns the same rows (as
\* many, none twice, none lost) with every field of the cleaned table as it
\* was, and adds no column but lat_j and lon_j.
C11_FilterJitterFrame ==
  [][/\ (pc \in {"filter", "jitter"}) => df' = df
     /\ (pc = "filter" /\ pc' = "jitter") =>
          /\ fdf'.cols = df.cols
          /\ Len(fdf'.rows) = Sum(FilterMask)
          /\ \A j \in 1..Len(fdf'.rows) :
               /\ \E i \in 1..Len(df.index) : df.index[i] = fdf'.index[j]
               /\ FilterMask[PositionOfLabel(fdf'.index[j])]
               /\ fdf'.rows[j] = df.rows[PositionOfLabel(fdf'.index[j])]
               /\ \A k \in 1..(j - 1) :
                    PositionOfLabel(fdf'.index[k]) < PositionOfLabel(fdf'.index[j])
     /\ (pc = "jitter" /\ pc' = "view") =>
          /\ Len(fdf'.rows) = Len(fdf.rows)
          /\ SourceRows(fdf') = SourceRows(fdf)
          /\ fdf.cols \subseteq fdf'.cols
          /\ fdf'.cols \ fdf.cols \subseteq {"lat_j", "lon_j"}
          /\ \A j \in 1..Len(fdf'.rows) : DOMAIN fdf'.rows[j] = fdf'.cols]_vars

\* The filter has kept two of three rows and jitter_overlaps has moved both
\* of them apart, while df still has its three rows.
C11_Witness ==
  /\ pc = "view"
  /\ Len(df.rows) = 3
  /\ Len(fdf.rows) = 2
  /\ ailment = S_headache
  /\ \A j \in 1..2 :
       /\ fdf.rows[j]["lat_j"].t = "fix"
       /\ fdf.rows[j]["latitude"] = Num(45)

\* What session s sees as the logged-in user when its page runs.
SeenBy(s) == GetUser

\* C12: auth does not leak across sessions: a session from which nobody is
\* signed in sees no logged-in user (_is_logged_in false, _user_id None),
\* and a session whose user has signed in and has not signed out from it
\* still sees that user, whatever the other sessions do.
C12_AuthPerSession ==
  \A s \in Sessions :
    /\ (signed_in[s] = NoUser) => (SeenBy(s) = NoUser)
    /\ (signed_in[s] # NoUser) => (SeenBy(s) = signed_in[s])

\* C15: whatever the interleaving of toggle_vote calls, the votes table
\* holds at most one row per (post_id, user_id), and a toggle_vote that
\* completes without a backend error flips user_has_voted for its pair.
C15_OneVotePerPair ==
  [][/\ \A k \in Posts \X Users : votes'[k] <= 1
     /\ \A s \in Sessions :
          (cpc[s] = "toggle" /\ cpc'[s] = "rerun") =>
            (user_has_voted(target[s], uid[s])' = ~user_has_voted(target[s], uid[s]))]_vars

\* The caution step has run on a table that has the cautions column.
CautionStepDone == "cautions" \in df.cols /\ pc \in {"tooltip", "scrub"}

\* The flag of row j is set.
Flagged(j) == df.rows[j]["caution_flag"] = Str(<<"warn">>)

\* The words the claim lists, taken as the keywords themselves.
ListedWords ==
  { <<"p","r","e","g","n","a","n","c","y">>,
    <<"a","n","t","i","c","o","a","g","u","l","a","n","t","s">>,
    <<"b","l","e","e","d","i","n","g">>,
    <<"a","s","p","i","r","i","n">>,
    <<"b","l","o","o","d"," ","p","r","e","s","s","u","r","e">>,
    <<"l","i","v","e","r">>,
    <<"r","e","n","a","l">>,
    <<"c","h","i","l","d","r","e","n">>,
    <<"p","e","d","i","a","t","r","i","c">>,
    <<"t","o","x","i","c","i","t","y">>,
    <<"a","v","o","i","d">> }

\* C13, as the claim states it: the flag of a retained row is set if and
\* only if its cautions text contains, up to case, one of the listed words
\* pregnancy, anticoagulants, bleeding, aspirin, blood pressure, liver,
\* renal, children, pediatric, toxicity, avoid.
C13_Original ==
  CautionStepDone =>
    \A j \in 1..Len(df.rows) :
      Flagged(j) <=>
        /\ df.rows[j]["cautions"].t = "str"
        /\ \E w \in ListedWords : Contains(Lower(df.rows[j]["cautions"].s), w)

\* C13, amended: the flag of a retained row is set if and only if its
\* cautions text contains, up to case, one of the keywords of
\* CAUTION_KEYWORDS, which are word stems (pregnan, anticoagul, toxic, ...):
\* "AVOID in PREGNANCY" and "toxic" set it, "tea with honey" and a missing
\* value do not.
C13_CautionIffKeyword ==
  CautionStepDone =>
    \A j \in 1..Len(df.rows) :
      LET c == df.rows[j]["cautions"]
      IN /\ Flagged(j) <=>
              /\ c.t = "str"
              /\ \E k \in CAUTION_KEYWORDS : Contains(Lower(c.s), k)
         /\ df.rows[j]["caution_flag"] \in {Str(<<"warn">>), Str(<<"dash">>)}
         /\ (c = Str(S_AVOID_in_PREGNANCY)) => Flagged(j)
         /\ (c = Str(S_toxic)) => Flagged(j)
         /\ (c = Str(S_tea_with_honey)) => ~Flagged(j)
         /\ (c = NaN) => ~Flagged(j)

\* coerce_and_validate has returned a row with "AVOID in PREGNANCY", flagged,
\* and a row with no cautions value, not flagged.
C13_Witness ==
  /\ pc = "scrub"
  /\ Len(df.rows) = 2
  /\ df.rows[1]["cautions"] = Str(S_AVOID_in_PREGNANCY) /\ Flagged(1)
  /\ df.rows[2]["cautions"] = NaN /\ ~Flagged(2)

\* The filter-key scrub has run.
Scrubbed == pc \in {"empty", "stopped", "sidebar", "filter", "jitter", "view"}

\* A text free of no-break and zero-width spaces and of white space at
\* its ends.
Tidy(c) ==
  /\ c.t = "str"
  /\ \A i \in 1..Len(c.s) : c.s[i] \notin {"NBSP", "ZWSP"}
  /\ c.s # <<>> => (c.s[1] \notin WhiteSpace /\ c.s[Len(c.s)] \notin WhiteSpace)

\* The text of a source cell without its invisible characters: no
\* zero-width space, and no white space or no-break space at its ends.
Visible(c) == Strip(DropZwsp(c.s))

\* The input cell a row of df was read from.
RawCell(j, col) == df_raw.rows[df.index[j] + 1][col]

\* The keys of the scrubbed table are tidy, and two rows whose source texts
\* differ by invisible characters only carry one value.
KeysTidy ==
  \A col \in ScrubCols :
    /\ \A j \in 1..Len(df.rows) :
         RawCell(j, col).t = "str" => Tidy(df.rows[j][col])
    /\ \A i, j \in 1..Len(df.rows) :
         (/\ RawCell(i, col).t = "str" /\ RawCell(j, col).t = "str"
          /\ Visible(RawCell(i, col)) = Visible(RawCell(j, col))) =>
           df.rows[i][col] = df.rows[j][col]

\* C14: after the scrub the keys ailment, region and country are tidy, rows
\* whose keys differ by invisible characters only carry one value (one
\* dropdown option, matched by its exact-match filter), and a row whose key
\* was missing has no text value a dropdown could offer.
C14_ScrubbedKeys ==
  Scrubbed =>
    /\ KeysTidy
    /\ \A col \in ScrubCols : \A j \in 1..Len(df.rows) :
         RawCell(j, col).t = "nan" => df.rows[j][col].t # "str"

====
